---------------------------- MODULE Spec2Model ----------------------------
(***************************************************************************)
(* Trufflify: the particle transport matcher of src/main.cpp (the layout   *)
(* pass initParticles, the frame query update, and the frame loop of main) *)
(* and the mutation optimizer described in spec.md section 4.1.            *)
(*                                                                         *)
(* Positions, scales and times are C++ floats.  They are modelled bit for  *)
(* bit as IEEE-754 binary32 values, because several properties are about   *)
(* exact equality of computed positions.                                   *)
(***************************************************************************)
EXTENDS Integers, Sequences, FiniteSets, TLC

(***************************************************************************)
(* IEEE-754 binary32 arithmetic (round to nearest, ties to even).          *)
(* A float is <<m, e>> with value m * 2^e, where 2^23 <= |m| < 2^24, or    *)
(* <<0, 0>> for zero.  The values the program computes stay far from the   *)
(* subnormal and overflow ranges, so the exponent is left unbounded.       *)
(***************************************************************************)
Pow2(n) == 2 ^ n

Abs(i) == IF i < 0 THEN -i ELSE i

Sgn(i) == IF i < 0 THEN -1 ELSE IF i > 0 THEN 1 ELSE 0

\* the number of significant bits of n, for 0 <= n < 2^31
BitLen4(n) == IF n >= 8 THEN 4 ELSE IF n >= 4 THEN 3 ELSE IF n >= 2 THEN 2 ELSE n

BitLen8(n) == IF n >= 16 THEN 4 + BitLen4(n \div 16) ELSE BitLen4(n)

BitLen16(n) == IF n >= 256 THEN 8 + BitLen8(n \div 256) ELSE BitLen8(n)

BitLen(n) == IF n >= 65536 THEN 16 + BitLen16(n \div 65536) ELSE BitLen16(n)

FZero == <<0, 0>>

\* round the magnitude n * 2^e (plus a nonzero tail below it when sticky) to 24 bits
RoundMag(n, e, sticky) ==
    LET k == BitLen(n) - 24 IN
    IF n = 0 THEN FZero
    ELSE IF k <= 0 THEN <<n * Pow2(-k), e + k>>
    ELSE LET q    == n \div Pow2(k)
             r    == n % Pow2(k)
             half == Pow2(k - 1)
             up   == r > half \/ (r = half /\ (sticky \/ q % 2 = 1))
             q1   == IF up THEN q + 1 ELSE q
         IN  IF q1 = Pow2(24) THEN <<Pow2(23), e + k + 1>> ELSE <<q1, e + k>>

FSigned(s, f) == IF s < 0 THEN <<-f[1], f[2]>> ELSE f

FNeg(a) == <<-a[1], a[2]>>

\* a + b for a[2] >= b[2], both nonzero
FAddOrdered(a, b) ==
    LET d     == a[2] - b[2]
        s     == IF d < 6 THEN d ELSE 6
        X     == Abs(a[1]) * Pow2(s)
        sh    == d - s
        Y     == IF sh >= 25 THEN 0 ELSE Abs(b[1]) \div Pow2(sh)
        tail  == IF sh >= 25 THEN TRUE ELSE Abs(b[1]) % Pow2(sh) # 0
        e     == a[2] - s
    IN  IF Sgn(a[1]) = Sgn(b[1])
        THEN FSigned(Sgn(a[1]), RoundMag(X + Y, e, tail))
        ELSE IF tail
             THEN FSigned(Sgn(a[1]), RoundMag(X - Y - 1, e, TRUE))
             ELSE FSigned(Sgn(a[1]) * Sgn(X - Y), RoundMag(Abs(X - Y), e, FALSE))

FAdd(a, b) ==
    IF a[1] = 0 THEN b
    ELSE IF b[1] = 0 THEN a
    ELSE IF a[2] >= b[2] THEN FAddOrdered(a, b) ELSE FAddOrdered(b, a)

FSub(a, b) == FAdd(a, FNeg(b))

FMul(a, b) ==
    IF a[1] = 0 \/ b[1] = 0 THEN FZero
    ELSE LET x   == Abs(a[1])
             y   == Abs(b[1])
             x1  == x \div 4096
             x0  == x % 4096
             y1  == y \div 4096
             y0  == y % 4096
             mid == x1 * y0 + x0 * y1
             L   == x0 * y0 + (mid % 4096) * 4096
             H   == x1 * y1 + mid \div 4096 + L \div Pow2(24)
             lo  == L % Pow2(24)
         IN  FSigned(Sgn(a[1]) * Sgn(b[1]),
                     RoundMag(H * 64 + lo \div Pow2(18), a[2] + b[2] + 18, lo % Pow2(18) # 0))

\* n more quotient bits of r / y, appended to q; the result is <<quotient, remainder>>
RECURSIVE DivBits(_, _, _, _)
DivBits(r, y, q, n) ==
    IF n = 0 THEN <<q, r>>
    ELSE IF 2 * r >= y THEN DivBits(2 * r - y, y, 2 * q + 1, n - 1)
                       ELSE DivBits(2 * r, y, 2 * q, n - 1)

FDiv(a, b) ==
    IF a[1] = 0 THEN FZero
    ELSE LET x  == Abs(a[1])
             y  == Abs(b[1])
             qr == DivBits(x % y, y, x \div y, 26)
         IN  FSigned(Sgn(a[1]) * Sgn(b[1]), RoundMag(qr[1], a[2] - b[2] - 26, qr[2] # 0))

\* the integer square root of n * 4^k, digit by digit: <<root, remainder>>
RECURSIVE SqrtBits(_, _, _, _)
SqrtBits(n, i, root, rem) ==
    IF i < -14 THEN <<root, rem>>
    ELSE LET pair == IF i >= 0 THEN (n \div Pow2(2 * i)) % 4 ELSE 0
             r4   == rem * 4 + pair
             t    == root * 4 + 1
         IN  IF r4 >= t THEN SqrtBits(n, i - 1, root * 2 + 1, r4 - t)
                        ELSE SqrtBits(n, i - 1, root * 2, r4)

FSqrt(a) ==
    IF a[1] = 0 THEN FZero
    ELSE LET odd == a[2] % 2 = 1
             n   == IF odd THEN 2 * a[1] ELSE a[1]
             e   == IF odd THEN a[2] - 1 ELSE a[2]
             rr  == SqrtBits(n, 12, 0, 0)
         IN  RoundMag(rr[1], (e \div 2) - 14, rr[2] # 0)

FromInt(n) == FSigned(Sgn(n), RoundMag(Abs(n), 0, FALSE))

FLt(a, b) == FSub(a, b)[1] < 0

FLe(a, b) == FSub(a, b)[1] <= 0

FMax(a, b) == IF FLt(a, b) THEN b ELSE a

FMin(a, b) == IF FLt(b, a) THEN b ELSE a

\* (int)a for a >= 0: truncation
FToInt(a) == IF a[2] >= 0 THEN a[1] * Pow2(a[2])
             ELSE IF -a[2] >= 31 THEN 0 ELSE a[1] \div Pow2(-a[2])

(***************************************************************************)
(* Float literals of the program.  A decimal literal denotes the float     *)
(* nearest to it, which is what a correctly rounded division yields.       *)
(***************************************************************************)
FOne == FromInt(1)

FTwo == FromInt(2)

FHalf == FDiv(FOne, FTwo)

F08 == FDiv(FromInt(4), FromInt(5))

F04 == FDiv(FromInt(2), FromInt(5))

F12 == FDiv(FromInt(6), FromInt(5))

\* float maxParticles = 15000.0f
maxParticles == FromInt(15000)

\* float duration = 3.0f
duration == FromInt(3)

\* int samples = 100
samples == 100

\* sf::Time::asSeconds divides the microsecond count by 1000000.f
MicrosPerSecond == FromInt(1000000)

(***************************************************************************)
(* Colours, vectors and images.                                            *)
(***************************************************************************)
Color(r, g, b, a) == [r |-> r, g |-> g, b |-> b, a |-> a]

\* sf::Color's default constructor: opaque black
ColorDefault == Color(0, 0, 0, 255)

Vector2f(vx, vy) == [x |-> vx, y |-> vy]

\* sf::Vector2f's default constructor
Vector2fDefault == Vector2f(FZero, FZero)

VAdd(u, v) == Vector2f(FAdd(u.x, v.x), FAdd(u.y, v.y))

VSub(u, v) == Vector2f(FSub(u.x, v.x), FSub(u.y, v.y))

VScale(u, f) == Vector2f(FMul(u.x, f), FMul(u.y, f))

\* An image is its size and its pixels; px lists the pixels that are not
\* transparent black.
Image(w, h, px) == [w |-> w, h |-> h, px |-> px]

getPixel(img, px, py) ==
    IF <<px, py>> \in DOMAIN img.px THEN img.px[<<px, py>>] ELSE Color(0, 0, 0, 0)

colorDiff(c1, c2) ==
    LET dr == c1.r - c2.r
        dg == c1.g - c2.g
        db == c1.b - c2.b
    IN  dr * dr + dg * dg + db * db

\* 1.0f - pow(1.0f - x, 3.0f).  pow works in double and the result is narrowed
\* to float on return; the cube below agrees with it whenever (1 - x)^3 is a
\* float, which holds for every progress value the frame loop of this model
\* produces (0, 1/2 and 1).
easeOutCubic(t) ==
    LET y == FSub(FOne, t) IN FSub(FOne, FMul(FMul(y, y), y))

(***************************************************************************)
(* initParticles: the display transforms, the stride and the target index. *)
(***************************************************************************)
TargetScaleOf(tgt, W, H) ==
    LET targetAspect == FDiv(FromInt(tgt.w), FromInt(tgt.h))
        windowAspect == FDiv(FromInt(W), FromInt(H))
        fit == IF FLt(windowAspect, targetAspect)
               THEN FDiv(FMul(FromInt(W), F08), FromInt(tgt.w))
               ELSE FDiv(FMul(FromInt(H), F08), FromInt(tgt.h))
    IN  FMax(FOne, fit)

\* faulty variant of OffsetOf: the margin is not halved
OffsetOfUnhalved(window, size, scale) == FSub(FromInt(window), FMul(FromInt(size), scale))

\* (window - size * scale) / 2.0f, for either image and either axis
OffsetOf(window, size, scale) ==
    FDiv(FSub(FromInt(window), FMul(FromInt(size), scale)), FTwo)

StepOf(inW, inH) ==
    LET ratio == FSqrt(FDiv(maxParticles, FromInt(inW * inH)))
    IN  IF FLt(ratio, FOne) THEN FToInt(FDiv(FOne, ratio)) ELSE 1

DisplayScaleOf(inW, inH, W, H) ==
    LET displayScaleX == FDiv(FromInt(W), FromInt(inW))
        displayScaleY == FDiv(FromInt(H), FromInt(inH))
    IN  FMul(FMin(displayScaleX, displayScaleY), F08)

BaseParticleSizeOf(scale, st) == FMax(FOne, FMul(scale, FromInt(st)))

\* offset + coordinate * scale
DisplayPos(offX, offY, scale, px, py) ==
    Vector2f(FAdd(offX, FMul(FromInt(px), scale)), FAdd(offY, FMul(FromInt(py), scale)))

\* whether the target pixel enters the index
InIndex(c) == c.a > 0

\* the cells of a set in the order of the loops: y outer, x inner
RECURSIVE RowMajor(_)
RowMajor(S) ==
    IF S = {} THEN <<>>
    ELSE LET c == CHOOSE c \in S : \A d \in S : c[2] < d[2] \/ (c[2] = d[2] /\ c[1] <= d[1])
         IN  <<c>> \o RowMajor(S \ {c})

TargetPixelsOf(tgt, offX, offY, scale) ==
    LET cells == RowMajor({c \in (0..(tgt.w - 1)) \X (0..(tgt.h - 1)) :
                              InIndex(getPixel(tgt, c[1], c[2]))})
    IN  [k \in 1..Len(cells) |->
            [color |-> getPixel(tgt, cells[k][1], cells[k][2]),
             pos   |-> DisplayPos(offX, offY, scale, cells[k][1], cells[k][2])]]

\* whether the emission loop skips the source pixel
Skipped(c) == c.a = 0

\* faulty variant of LoopValues: the loop variable advances by 1
LoopValuesDense(limit, st) == 0..(limit - 1)

\* the values a loop variable takes: 0, st, 2 st, ... below the limit
LoopValues(limit, st) == {k * st : k \in 0..((limit - 1) \div st)}

\* The cells the emission loop visits that are not skipped and come at or
\* after (fromX, fromY) in loop order; the first of them is where the loop
\* next builds a particle.
EmitCells(img, st, fromX, fromY) ==
    {c \in LoopValues(img.w, st) \X LoopValues(img.h, st) :
        /\ c[2] > fromY \/ (c[2] = fromY /\ c[1] >= fromX)
        /\ ~Skipped(getPixel(img, c[1], c[2]))}

NoCell == <<-1, -1>>

NextEmit(img, st, fromX, fromY) ==
    LET S == EmitCells(img, st, fromX, fromY)
    IN  IF S = {} THEN NoCell
        ELSE CHOOSE c \in S : \A d \in S : c[2] < d[2] \/ (c[2] = d[2] /\ c[1] <= d[1])

\* std::uniform_real_distribution<float>(a, b) on the canonical draw u in [0, 1)
UniformReal(a, b, u) == FAdd(FMul(FSub(b, a), u), a)

\* faulty variant of JitterOf: the jitter range twice as wide
JitterOfWide(scale, u) == UniformReal(FMul(FNeg(scale), F08), FMul(scale, F08), u)

\* jitterDist(-targetScale * 0.4f, targetScale * 0.4f)
JitterOf(scale, u) == UniformReal(FMul(FNeg(scale), F04), FMul(scale, F04), u)

\* sizeDist(0.8f, 1.2f)
SizeFactorOf(u) == UniformReal(F08, F12, u)

(***************************************************************************)
(* Inputs.  load() hands initParticles two decoded images, and main hands  *)
(* it the window size; a run of the program is one such triple.            *)
(***************************************************************************)
Red == Color(255, 0, 0, 255)

Green == Color(0, 255, 0, 255)

Blue == Color(0, 0, 255, 255)

DarkRed == Color(200, 0, 0, 255)

DarkRedHalf == Color(200, 0, 0, 128)

Scenario(src, tgt, W, H) == [input |-> src, target |-> tgt, W |-> W, H |-> H]

Scenarios ==
    { \* one opaque pixel each
      Scenario(Image(1, 1, <<0, 0>> :> Red), Image(1, 1, <<0, 0>> :> Blue), 800, 800),
      \* one opaque pixel each, the source's in the second column
      Scenario(Image(2, 1, <<1, 0>> :> Red), Image(1, 1, <<0, 0>> :> Blue), 800, 800),
      \* three index entries, two of them at the same RGB distance
      Scenario(Image(1, 1, <<0, 0>> :> Red),
               Image(3, 1, <<0, 0>> :> Blue @@ <<1, 0>> :> DarkRedHalf @@ <<2, 0>> :> DarkRed),
               800, 800),
      \* a fully transparent target
      Scenario(Image(2, 2, <<0, 0>> :> Red @@ <<1, 1>> :> Green), Image(2, 2, <<>>), 800, 800),
      \* a source large enough for a stride of 2, with pixels on and off the stride
      Scenario(Image(320, 200, <<2, 0>> :> Red @@ <<1, 0>> :> Green @@ <<318, 198>> :> Blue),
               Image(1, 1, <<0, 0>> :> Blue), 800, 800),
      \* one opaque pixel each, the source's off the stride
      Scenario(Image(320, 200, <<1, 1>> :> Red), Image(1, 1, <<0, 0>> :> Blue), 800, 800),
      \* a target wider than the window
      Scenario(Image(1, 1, <<0, 0>> :> Red), Image(1000, 2, <<180, 1>> :> Blue), 800, 800),
      \* a window that is not square
      Scenario(Image(1, 2, <<0, 1>> :> Red), Image(2, 1, <<1, 0>> :> Blue), 800, 600) }

\* Canonical draws of the generator: u = float(r) / 2^32 for a 32-bit word r.
\* The draws modelled are 0 (the distribution's lower end) and an odd 24-bit
\* significand just above 1/4 (r = 2^30 + 128).
CanonicalU == {FZero, <<Pow2(23) + 1, -25>>}

\* the canonical draws used for the size factor
SizeU == {FZero, FHalf}

\* the clock advances in steps of 1.5 s, at most MaxTicks times
ClockStep == 1500 * 1000

MaxTicks == 3

\* "no value yet" for a float variable
NoFloat == <<>>

VARIABLES
    inputImage, targetImage, windowW, windowH,   \* Trufflifier's images and main's window size
    pc,                                          \* where the program is
    targetScale, targetOffsetX, targetOffsetY,   \* locals of initParticles
    step, displayScale, inputOffsetX, inputOffsetY,
    targetPixels,
    baseParticleSize,                            \* Trufflifier::baseParticleSize
    x, y,                                        \* the emission loop's variables
    p,                                           \* the particle under construction
    i, minDiff, bestIndex,                       \* the sampling loop's variables
    drawn,                                       \* history: the indices drawn for p, in order of first draw
    particles, vertexArray,                      \* Trufflifier's members
    isRunning, windowOpen,                       \* main's state
    now, clockStart,                             \* the steady clock and sf::Clock's start, in microseconds
    progress,                                    \* the frame's progress, as last passed to update
    enterSeen,                                   \* history: an Enter key press was handled
    wentBack,                                    \* history: a frame passed a smaller t than the one before
    working, targetGrid, iter, prevError         \* the mutation optimizer

inputVars == <<inputImage, targetImage, windowW, windowH>>

layoutVars == <<targetScale, targetOffsetX, targetOffsetY, step, displayScale,
                inputOffsetX, inputOffsetY, targetPixels, baseParticleSize>>

loopVars == <<x, y>>

sampleVars == <<i, minDiff, bestIndex, drawn>>

mainVars == <<isRunning, windowOpen, now, clockStart, progress, enterSeen, wentBack>>

optVars == <<working, targetGrid, iter, prevError>>

vars == <<inputVars, pc, layoutVars, loopVars, p, sampleVars, particles, vertexArray,
          mainVars, optVars>>

(***************************************************************************)
(* The program of src/main.cpp.  main loads the images, builds the         *)
(* particles, and runs the frame loop.                                     *)
(***************************************************************************)
Init ==
    /\ \E sc \in Scenarios :
          /\ inputImage = sc.input
          /\ targetImage = sc.target
          /\ windowW = sc.W
          /\ windowH = sc.H
    /\ pc = "start"
    /\ targetScale = NoFloat /\ targetOffsetX = NoFloat /\ targetOffsetY = NoFloat
    /\ step = 0
    /\ displayScale = NoFloat /\ inputOffsetX = NoFloat /\ inputOffsetY = NoFloat
    /\ targetPixels = <<>>
    /\ baseParticleSize = FOne
    /\ x = 0 /\ y = 0
    /\ p = <<>>
    /\ i = 0 /\ minDiff = -1 /\ bestIndex = 0
    /\ drawn = <<>>
    /\ particles = <<>>
    /\ vertexArray = <<>>
    /\ isRunning = FALSE
    /\ windowOpen = TRUE
    /\ now = 0 /\ clockStart = 0
    /\ progress = NoFloat
    /\ enterSeen = FALSE
    /\ wentBack = FALSE
    /\ working = <<>> /\ targetGrid = <<>> /\ iter = 0 /\ prevError = 0

\* Where the emission loop goes from cell: to the next pixel it does not skip,
\* or out of initParticles and into main's frame loop.
LoopTo(cell) ==
    IF cell = NoCell
    THEN pc' = "events" /\ UNCHANGED loopVars
    ELSE pc' = "pixel" /\ x' = cell[1] /\ y' = cell[2]

\* initParticles up to the emission loop
BeginInit ==
    /\ pc = "start"
    /\ particles' = <<>>
    /\ targetScale' = TargetScaleOf(targetImage, windowW, windowH)
    /\ targetOffsetX' = OffsetOf(windowW, targetImage.w, targetScale')
    /\ targetOffsetY' = OffsetOf(windowH, targetImage.h, targetScale')
    /\ step' = StepOf(inputImage.w, inputImage.h)
    /\ displayScale' = DisplayScaleOf(inputImage.w, inputImage.h, windowW, windowH)
    /\ inputOffsetX' = OffsetOf(windowW, inputImage.w, displayScale')
    /\ inputOffsetY' = OffsetOf(windowH, inputImage.h, displayScale')
    /\ baseParticleSize' = BaseParticleSizeOf(displayScale', step')
    /\ targetPixels' = TargetPixelsOf(targetImage, targetOffsetX', targetOffsetY', targetScale')
    /\ LoopTo(NextEmit(inputImage, step', 0, 0))
    /\ UNCHANGED <<inputVars, p, sampleVars, vertexArray, mainVars, optVars>>

\* the loop body up to the match: the particle's start, colour and size
NewParticle ==
    /\ pc = "pixel"
    /\ \E u \in SizeU :
          p' = [startPos     |-> DisplayPos(inputOffsetX, inputOffsetY, displayScale, x, y),
                endPos       |-> Vector2fDefault,
                startColor   |-> getPixel(inputImage, x, y),
                endColor     |-> ColorDefault,
                currentPos   |-> Vector2fDefault,
                currentColor |-> getPixel(inputImage, x, y),
                size         |-> FMul(baseParticleSize, SizeFactorOf(u))]
    /\ pc' = "match"
    /\ IF targetPixels = <<>>
       THEN UNCHANGED sampleVars
       ELSE i' = 0 /\ minDiff' = -1 /\ bestIndex' = 0 /\ drawn' = <<>>
    /\ UNCHANGED <<inputVars, layoutVars, loopVars, particles, vertexArray, mainVars, optVars>>

\* faulty variant of Better: a tie replaces the best entry
BetterOrEqual(diff, best) == best = -1 \/ diff <= best

\* whether a drawn entry replaces the best one so far
Better(diff, best) == best = -1 \/ diff < best

\* one iteration of the sampling loop
Sample ==
    /\ pc = "match"
    /\ targetPixels # <<>>
    /\ i < samples
    /\ \E idx \in 0..(Len(targetPixels) - 1) :
          LET diff == colorDiff(p.startColor, targetPixels[idx + 1].color)
          IN  /\ IF Better(diff, minDiff)
                 THEN minDiff' = diff /\ bestIndex' = idx
                 ELSE UNCHANGED <<minDiff, bestIndex>>
              /\ drawn' = IF \E k \in 1..Len(drawn) : drawn[k] = idx
                          THEN drawn ELSE Append(drawn, idx)
    /\ i' = i + 1
    /\ UNCHANGED <<inputVars, pc, layoutVars, loopVars, p, particles, vertexArray,
                   mainVars, optVars>>

\* the matched entry's position, jittered on both axes
JitteredEnd(pos, scale, ux, uy) ==
    Vector2f(FAdd(pos.x, JitterOf(scale, ux)), FAdd(pos.y, JitterOf(scale, uy)))

\* After the sampling loop: the end position and colour, and push_back.  The
\* iteration's locals end here and go back to their initial values.
PlaceMatched ==
    /\ pc = "match"
    /\ targetPixels # <<>>
    /\ i = samples
    /\ \E ux \in CanonicalU, uy \in CanonicalU :
          particles' = Append(particles,
              [p EXCEPT !.endPos = JitteredEnd(targetPixels[bestIndex + 1].pos, targetScale, ux, uy),
                        !.endColor = targetPixels[bestIndex + 1].color])
    /\ LoopTo(NextEmit(inputImage, step, x + step, y))
    /\ p' = <<>>
    /\ i' = 0 /\ minDiff' = -1 /\ bestIndex' = 0 /\ drawn' = <<>>
    /\ UNCHANGED <<inputVars, layoutVars, vertexArray, mainVars, optVars>>

\* faulty variant of CollapsedEnd: the assignment left out
CollapsedEndUnset(q) == q.endPos

\* p.endPos = p.startPos
CollapsedEnd(q) == q.startPos

\* the empty-index branch, and push_back
PlaceCollapsed ==
    /\ pc = "match"
    /\ targetPixels = <<>>
    /\ particles' = Append(particles, [p EXCEPT !.endPos = CollapsedEnd(p)])
    /\ LoopTo(NextEmit(inputImage, step, x + step, y))
    /\ p' = <<>>
    /\ UNCHANGED <<inputVars, layoutVars, sampleVars, vertexArray, mainVars, optVars>>

(***************************************************************************)
(* update(t)                                                               *)
(***************************************************************************)
\* p.startPos + (p.endPos - p.startPos) * easedT
CurrentPos(q, easedT) == VAdd(q.startPos, VScale(VSub(q.endPos, q.startPos), easedT))

\* faulty variant of CurrentColor: the colour switches to the end colour on the way
CurrentColorFaded(q, easedT) == IF easedT = FZero THEN q.startColor ELSE q.endColor

\* p.currentColor = p.startColor
CurrentColor(q, easedT) == q.startColor

UpdateParticle(q, easedT) ==
    [q EXCEPT !.currentPos = CurrentPos(q, easedT), !.currentColor = CurrentColor(q, easedT)]

Vertex(pos, color) == [position |-> pos, color |-> color]

\* the quad of an updated particle: v1, v2, v3, v4
Quad(q) ==
    LET cx == q.currentPos.x
        cy == q.currentPos.y
        currentSize == q.size
    IN  << Vertex(q.currentPos, q.currentColor),
           Vertex(Vector2f(FAdd(cx, currentSize), cy), q.currentColor),
           Vertex(Vector2f(FAdd(cx, currentSize), FAdd(cy, currentSize)), q.currentColor),
           Vertex(Vector2f(cx, FAdd(cy, currentSize)), q.currentColor) >>

\* the quads of the particles ps[k], ps[k+1], ..., appended to va in order
RECURSIVE AppendQuads(_, _, _)
AppendQuads(va, ps, k) ==
    IF k > Len(ps) THEN va ELSE AppendQuads(va \o Quad(ps[k]), ps, k + 1)

\* faulty variant of VertexArrayClear: the vertex array is not cleared
VertexArrayKept(va) == va

\* vertexArray.clear()
VertexArrayClear(va) == <<>>

\* the particles after update(t)
UpdatedParticles(ps, t) == [k \in 1..Len(ps) |-> UpdateParticle(ps[k], easeOutCubic(t))]

\* the vertex array after update(t), given the updated particles
UpdatedVertices(va, ps) == AppendQuads(VertexArrayClear(va), ps, 1)

(***************************************************************************)
(* main's frame loop.  One round polls the pending events and then draws   *)
(* a frame; events and frames therefore interleave freely, and the round   *)
(* in which the window is closed still draws its frame.  pollEvent yields  *)
(* nothing once the window is closed.                                      *)
(***************************************************************************)
\* sf::Event::Closed
EventClosed ==
    /\ pc = "events" /\ windowOpen
    /\ windowOpen' = FALSE
    /\ UNCHANGED <<inputVars, pc, layoutVars, loopVars, p, sampleVars, particles, vertexArray,
                   isRunning, now, clockStart, progress, enterSeen, wentBack, optVars>>

\* KeyPressed, Escape
KeyEscape ==
    /\ pc = "events" /\ windowOpen
    /\ windowOpen' = FALSE
    /\ UNCHANGED <<inputVars, pc, layoutVars, loopVars, p, sampleVars, particles, vertexArray,
                   isRunning, now, clockStart, progress, enterSeen, wentBack, optVars>>

\* KeyPressed, Enter
KeyEnter ==
    /\ pc = "events" /\ windowOpen
    /\ IF ~isRunning
       THEN isRunning' = TRUE /\ clockStart' = now /\ UNCHANGED windowOpen
       ELSE windowOpen' = FALSE /\ UNCHANGED <<isRunning, clockStart>>
    /\ enterSeen' = TRUE
    /\ UNCHANGED <<inputVars, pc, layoutVars, loopVars, p, sampleVars, particles, vertexArray,
                   now, progress, wentBack, optVars>>

\* KeyPressed, R
KeyR ==
    /\ pc = "events" /\ windowOpen
    /\ IF isRunning THEN clockStart' = now ELSE UNCHANGED clockStart
    /\ UNCHANGED <<inputVars, pc, layoutVars, loopVars, p, sampleVars, particles, vertexArray,
                   isRunning, windowOpen, now, progress, enterSeen, wentBack, optVars>>

\* time passes
Tick ==
    /\ pc = "events"
    /\ now < MaxTicks * ClockStep
    /\ now' = now + ClockStep
    /\ UNCHANGED <<inputVars, pc, layoutVars, loopVars, p, sampleVars, particles, vertexArray,
                   isRunning, windowOpen, clockStart, progress, enterSeen, wentBack, optVars>>

\* clock.getElapsedTime().asSeconds()
ElapsedSeconds == FDiv(FromInt(now - clockStart), MicrosPerSecond)

\* faulty variant of ProgressOf: no clamp
ProgressOfUnclamped(t) == FDiv(t, duration)

\* std::min(time / duration, 1.0f)
ProgressOf(t) == FMin(FDiv(t, duration), FOne)

\* the rest of the round: progress, update, draw, and the loop's test
Frame ==
    /\ pc = "events"
    /\ progress' = IF isRunning THEN ProgressOf(ElapsedSeconds) ELSE FZero
    /\ particles' = UpdatedParticles(particles, progress')
    /\ vertexArray' = UpdatedVertices(vertexArray, particles')
    /\ wentBack' = (wentBack \/ (progress # NoFloat /\ FLt(progress', progress)))
    /\ pc' = IF windowOpen THEN "events" ELSE "exit"
    /\ UNCHANGED <<inputVars, layoutVars, loopVars, p, sampleVars,
                   isRunning, windowOpen, now, clockStart, enterSeen, optVars>>

Next ==
    \/ BeginInit
    \/ NewParticle
    \/ Sample
    \/ PlaceMatched
    \/ PlaceCollapsed
    \/ EventClosed
    \/ KeyEscape
    \/ KeyEnter
    \/ KeyR
    \/ Tick
    \/ Frame

Spec == Init /\ [][Next]_vars

(***************************************************************************)
(* The mutation optimizer (spec.md section 4.1).  A grid is its size and   *)
(* an RGBA colour for every cell.                                          *)
(***************************************************************************)
Grid(w, h, c) == [w |-> w, h |-> h, px |-> [cell \in (0..(w - 1)) \X (0..(h - 1)) |-> c]]

White == Color(255, 255, 255, 255)

Black == Color(0, 0, 0, 255)

\* working and target grids a session starts from
OptScenarios ==
    { <<Grid(2, 2, White), Grid(2, 2, Black)>>,
      <<[Grid(3, 1, Red) EXCEPT !.px[<<1, 0>>] = Blue],
        [Grid(3, 1, DarkRed) EXCEPT !.px[<<2, 0>>] = White]>> }

\* the RGB values a patch's colour is drawn from
PatchColors == {<<0, 0, 0>>, <<255, 255, 255>>, <<200, 0, 0>>}

\* the patch's alpha: its blend strength
PatchAlpha == 100

\* the radii a patch is drawn from are 1..MaxRadius
MaxRadius == 2

\* a session runs at most MaxIter iterations
MaxIter == 3

Max(a, b) == IF a > b THEN a ELSE b

Min(a, b) == IF a < b THEN a ELSE b

\* the cells of the clipped bounding box that pass the disk test
Disk(g, cx, cy, r) ==
    {c \in (Max(0, cx - r)..Min(g.w - 1, cx + r)) \X (Max(0, cy - r)..Min(g.h - 1, cy + r)) :
        (c[1] - cx) * (c[1] - cx) + (c[2] - cy) * (c[2] - cy) <= r * r}

\* alpha * patch + (1 - alpha) * current per channel, truncated; opaque
Blend(rgb, cur) ==
    Color((PatchAlpha * rgb[1] + (255 - PatchAlpha) * cur.r) \div 255,
          (PatchAlpha * rgb[2] + (255 - PatchAlpha) * cur.g) \div 255,
          (PatchAlpha * rgb[3] + (255 - PatchAlpha) * cur.b) \div 255,
          255)

RECURSIVE SumOver(_, _, _)
SumOver(S, a, b) ==
    IF S = {} THEN 0
    ELSE LET c == CHOOSE c \in S : TRUE
         IN  colorDiff(a[c], b[c]) + SumOver(S \ {c}, a, b)

\* the squared-channel error of the cells S of grid a against grid b
ErrorOver(S, a, b) == SumOver(S, a.px, b.px)

TotalError(a, b) == ErrorOver(DOMAIN a.px, a, b)

\* faulty variant of Accept: every patch is kept
AcceptAlways(errorAfter, errorBefore) == TRUE

\* whether the painted patch is kept
Accept(errorAfter, errorBefore) == errorAfter < errorBefore

\* the working grid after one step with the patch (cx, cy, r, rgb)
StepResult(g, tgt, cx, cy, r, rgb) ==
    LET touched  == Disk(g, cx, cy, r)
        saved    == [c \in touched |-> g.px[c]]
        painted  == [g EXCEPT !.px = [c \in DOMAIN g.px |->
                                         IF c \in touched THEN Blend(rgb, g.px[c]) ELSE g.px[c]]]
        restored == [painted EXCEPT !.px = [c \in DOMAIN g.px |->
                                         IF c \in touched THEN saved[c] ELSE painted.px[c]]]
    IN  IF Accept(ErrorOver(touched, painted, tgt), ErrorOver(touched, g, tgt))
        THEN painted ELSE restored

OptInit ==
    /\ \E sc \in OptScenarios : working = sc[1] /\ targetGrid = sc[2]
    /\ iter = 0
    /\ prevError = TotalError(working, targetGrid)
    /\ pc = "optimize"
    /\ inputImage = Image(1, 1, <<>>) /\ targetImage = Image(1, 1, <<>>)
    /\ windowW = 800 /\ windowH = 800
    /\ targetScale = NoFloat /\ targetOffsetX = NoFloat /\ targetOffsetY = NoFloat
    /\ step = 0
    /\ displayScale = NoFloat /\ inputOffsetX = NoFloat /\ inputOffsetY = NoFloat
    /\ targetPixels = <<>>
    /\ baseParticleSize = FOne
    /\ x = 0 /\ y = 0
    /\ p = <<>>
    /\ i = 0 /\ minDiff = -1 /\ bestIndex = 0
    /\ drawn = <<>>
    /\ particles = <<>>
    /\ vertexArray = <<>>
    /\ isRunning = FALSE
    /\ windowOpen = TRUE
    /\ now = 0 /\ clockStart = 0
    /\ progress = NoFloat
    /\ enterSeen = FALSE
    /\ wentBack = FALSE

\* step(): draw a patch, paint it, keep it or restore
OptStep ==
    /\ pc = "optimize"
    /\ iter < MaxIter
    /\ \E cx \in 0..(working.w - 1), cy \in 0..(working.h - 1),
          r \in 1..MaxRadius, rgb \in PatchColors :
          working' = StepResult(working, targetGrid, cx, cy, r, rgb)
    /\ prevError' = TotalError(working, targetGrid)
    /\ iter' = iter + 1
    /\ UNCHANGED <<inputVars, pc, layoutVars, loopVars, p, sampleVars, particles, vertexArray,
                   mainVars, targetGrid>>

OptNext == OptStep

OptSpec == OptInit /\ [][OptNext]_vars

(***************************************************************************)
(* Exact arithmetic for stating properties: a dyadic number <<m, e>> is    *)
(* m * 2^e with any integer m.  Every float is one.                        *)
(***************************************************************************)
RECURSIVE DNorm(_)
DNorm(a) ==
    IF a[1] = 0 THEN <<0, 0>>
    ELSE IF a[1] % 2 = 0 THEN DNorm(<<a[1] \div 2, a[2] + 1>>)
    ELSE a

\* a - b, exactly
DSub(a, b) ==
    LET na == DNorm(a)
        nb == DNorm(b)
        e  == Min(na[2], nb[2])
    IN  DNorm(<<na[1] * Pow2(na[2] - e) - nb[1] * Pow2(nb[2] - e), e>>)

DAdd(a, b) == DSub(a, <<-b[1], b[2]>>)

DAbs(a) == <<Abs(a[1]), a[2]>>

DTimes(k, a) == <<k * a[1], a[2]>>

DLe(a, b) == DSub(a, b)[1] <= 0

\* the rounding allowance of the statements below: 2^-10 of a display unit
Tol == <<1, -10>>

\* |a - b| <= Tol
Approx(a, b) == DLe(DAbs(DSub(a, b)), Tol)

InMain == pc \in {"events", "exit"}

Updated == InMain /\ progress # NoFloat

\* the cells of an image whose pixel has nonzero alpha
OpaqueCells(img) == {c \in DOMAIN img.px : img.px[c].a # 0}

Indices(s) == 1..Len(s)

(***************************************************************************)
(* C1 (interpolation endpoints): after update(0) every particle's current  *)
(* position is exactly its startPos, and after update(1) it is exactly its *)
(* endPos.                                                                 *)
(***************************************************************************)
C1_InterpolationEndpoints ==
    Updated =>
        \A k \in Indices(particles) :
            /\ progress = FZero => particles[k].currentPos = particles[k].startPos
            /\ progress = FOne => particles[k].currentPos = particles[k].endPos

\* the half of C1 that the code does satisfy: update(0) gives startPos exactly
C1_StartExact ==
    Updated /\ progress = FZero =>
        \A k \in Indices(particles) : particles[k].currentPos = particles[k].startPos

\* the one cell of a one-element set
TheCell(S) == CHOOSE c \in S : TRUE

SinglePixelPair == Cardinality(OpaqueCells(inputImage)) = 1 /\ Cardinality(OpaqueCells(targetImage)) = 1

\* the display position of the target's pixel at cell c
TargetDisplayPos(c) == DisplayPos(targetOffsetX, targetOffsetY, targetScale, c[1], c[2])

\* whether the vector v is within bound + Tol of w on each axis, exactly;
\* bound5 is five times the bound
Within5(v, w, bound5) ==
    /\ DLe(DTimes(5, DAbs(DSub(v.x, w.x))), DAdd(bound5, DTimes(5, Tol)))
    /\ DLe(DTimes(5, DAbs(DSub(v.y, w.y))), DAdd(bound5, DTimes(5, Tol)))

\* whether v is within 0.4 * targetScale of w on each axis, exactly
WithinJitter(v, w) ==
    /\ DLe(DTimes(5, DAbs(DSub(v.x, w.x))), DTimes(2, targetScale))
    /\ DLe(DTimes(5, DAbs(DSub(v.y, w.y))), DTimes(2, targetScale))

(***************************************************************************)
(* C2 as stated (single-pixel scenario): with exactly one pixel of nonzero *)
(* alpha in the source and one in the target, initParticles produces       *)
(* exactly one particle, whose endPos equals the display position of the   *)
(* target's pixel.                                                         *)
(***************************************************************************)
C2_SinglePixelExact ==
    InMain /\ SinglePixelPair =>
        /\ Len(particles) = 1
        /\ particles[1].endPos = TargetDisplayPos(TheCell(OpaqueCells(targetImage)))

(***************************************************************************)
(* C2 as amended: with exactly one pixel of nonzero alpha in the source    *)
(* and one in the target, initParticles produces one particle if the       *)
(* source pixel's coordinates are multiples of step and none otherwise;    *)
(* the particle's endColor is the target pixel's colour and its endPos is  *)
(* within 0.4 * targetScale, up to float rounding, of the target pixel's   *)
(* display position on each axis.                                          *)
(***************************************************************************)
C2_SinglePixel ==
    InMain /\ SinglePixelPair =>
        LET s == TheCell(OpaqueCells(inputImage))
            t == TheCell(OpaqueCells(targetImage))
        IN  /\ Len(particles) = IF s[1] % step = 0 /\ s[2] % step = 0 THEN 1 ELSE 0
            /\ \A k \in Indices(particles) :
                  /\ particles[k].endColor = targetImage.px[t]
                  /\ Within5(particles[k].endPos, TargetDisplayPos(t), DTimes(2, targetScale))

\* a single-pixel pair whose particle ends away from the target pixel's position
C2_Witness ==
    /\ InMain /\ SinglePixelPair
    /\ Len(particles) = 1
    /\ particles[1].endPos # TargetDisplayPos(TheCell(OpaqueCells(targetImage)))

(***************************************************************************)
(* C3 (empty target): if no pixel of the target has alpha > 0, every       *)
(* particle has endPos = startPos, and every update(t) leaves its current  *)
(* position at startPos.                                                   *)
(***************************************************************************)
C3_EmptyTarget ==
    OpaqueCells(targetImage) = {} =>
        \A k \in Indices(particles) :
            /\ particles[k].endPos = particles[k].startPos
            /\ Updated => particles[k].currentPos = particles[k].startPos

\* two particles of an empty target, updated half way
C3_Witness ==
    /\ OpaqueCells(targetImage) = {}
    /\ Len(particles) = 2
    /\ Updated /\ progress = FHalf

\* the particles as initParticles builds them
Pristine(ps) ==
    [k \in Indices(ps) |-> [ps[k] EXCEPT !.currentPos = Vector2fDefault,
                                         !.currentColor = ps[k].startColor]]

(***************************************************************************)
(* C4 (idempotence, restartability): whatever updates came before, the     *)
(* particles and vertices after update(t) are those that a single          *)
(* update(t) of the freshly built particle set gives.                      *)
(***************************************************************************)
C4_UpdateDependsOnlyOnT ==
    Updated =>
        /\ particles = UpdatedParticles(Pristine(particles), progress)
        /\ vertexArray = AppendQuads(<<>>, UpdatedParticles(Pristine(particles), progress), 1)

\* a moving particle, updated at t = 0 after an update with a larger t
C4_Witness ==
    /\ Updated /\ wentBack /\ progress = FZero
    /\ \E k \in Indices(particles) : particles[k].endPos # particles[k].startPos

(***************************************************************************)
(* C5 (particle count stability): the number of particles initParticles    *)
(* produces is the number of source pixels with nonzero alpha whose        *)
(* coordinates are both multiples of step, whatever was drawn and whatever *)
(* the target holds.                                                       *)
(***************************************************************************)
C5_ParticleCount ==
    InMain =>
        Len(particles) = Cardinality({c \in OpaqueCells(inputImage) :
                                         c[1] % step = 0 /\ c[2] % step = 0})

\* a stride of 2 that leaves out an opaque pixel
C5_Witness ==
    /\ InMain /\ step = 2
    /\ Len(particles) = 2
    /\ Cardinality(OpaqueCells(inputImage)) = 3

\* the displayed size of a dimension of n pixels at a scale
Scaled(n, scale) == FMul(FromInt(n), scale)

\* 0.8 * n, exactly
Share80(n) == <<4 * n, 0>>

\* Centred: the margin left after the offset and the scaled size is the
\* offset again, on both axes, up to rounding
Centred(img, scale, offX, offY) ==
    /\ Approx(DAdd(DAdd(offX, Scaled(img.w, scale)), offX), <<windowW, 0>>)
    /\ Approx(DAdd(DAdd(offY, Scaled(img.h, scale)), offY), <<windowH, 0>>)

\* The placement C6 describes: no scaled dimension is more than 80% of the
\* window's, one of them is 80% of it (up to rounding), the scaled image is
\* no larger than the window, and it is centred.
Placed(img, scale, offX, offY) ==
    LET sw == Scaled(img.w, scale)
        sh == Scaled(img.h, scale)
    IN  /\ DLe(DTimes(5, sw), DAdd(Share80(windowW), DTimes(5, Tol)))
        /\ DLe(DTimes(5, sh), DAdd(Share80(windowH), DTimes(5, Tol)))
        /\ \/ Approx(DTimes(5, sw), Share80(windowW))
           \/ Approx(DTimes(5, sh), Share80(windowH))
        /\ DLe(sw, <<windowW, 0>>)
        /\ DLe(sh, <<windowH, 0>>)
        /\ Centred(img, scale, offX, offY)

(***************************************************************************)
(* C6 as stated (display placement): initParticles places the source and   *)
(* the target alike: the longest relevant dimension takes 80% of the       *)
(* window, the scaled image fits the window, and it is centred.            *)
(***************************************************************************)
C6_PlacementBoth ==
    pc # "start" =>
        /\ Placed(inputImage, displayScale, inputOffsetX, inputOffsetY)
        /\ Placed(targetImage, targetScale, targetOffsetX, targetOffsetY)

(***************************************************************************)
(* C6 as amended: the source is always placed so; the target is placed so  *)
(* when neither of its dimensions exceeds 80% of the window's, and         *)
(* otherwise it is drawn at scale 1 (it is never shrunk), still centred,   *)
(* with a dimension above 80% of the window's.                             *)
(***************************************************************************)
C6_Placement ==
    pc # "start" =>
        /\ Placed(inputImage, displayScale, inputOffsetX, inputOffsetY)
        /\ IF 5 * targetImage.w <= 4 * windowW /\ 5 * targetImage.h <= 4 * windowH
           THEN Placed(targetImage, targetScale, targetOffsetX, targetOffsetY)
           ELSE /\ targetScale = FOne
                /\ Centred(targetImage, targetScale, targetOffsetX, targetOffsetY)

\* a target wider than the window, drawn at scale 1 from a negative offset
C6_Witness ==
    /\ InMain
    /\ targetImage.w > windowW
    /\ targetScale = FOne
    /\ targetOffsetX[1] < 0

(***************************************************************************)
(* C7 (progress range): every t the frame loop passes to update is in      *)
(* [0, 1], and it is 0 as long as no Enter key press was handled.          *)
(***************************************************************************)
C7_ProgressRange ==
    Updated =>
        /\ FLe(FZero, progress)
        /\ FLe(progress, FOne)
        /\ ~enterSeen => progress = FZero

\* the last frame ran 4.5 s after the start, with t = 1
C7_Witness ==
    /\ pc = "exit" /\ isRunning
    /\ now - clockStart = 3 * ClockStep
    /\ progress = FOne

(***************************************************************************)
(* C8 (monotonic improvement): after every iteration of the optimizer the  *)
(* squared-channel error of the working grid against the target, over the  *)
(* whole grid, is no larger than before it.                                *)
(***************************************************************************)
C8_ErrorNonIncreasing ==
    pc = "optimize" => TotalError(working, targetGrid) <= prevError

\* a second or later iteration that lowered the error
C8_Witness ==
    /\ pc = "optimize" /\ iter >= 2
    /\ TotalError(working, targetGrid) < prevError

\* the fields update must leave alone
Built(q) == <<q.startPos, q.endPos, q.startColor, q.endColor, q.size>>

(***************************************************************************)
(* C9 (frame effect of update): a frame leaves the number of particles and *)
(* each particle's startPos, endPos, startColor, endColor and size as they *)
(* are, and after update every particle and each of its four vertices has  *)
(* the particle's startColor, at every t.                                  *)
(***************************************************************************)
C9_FrameEffect ==
    /\ [][pc = "events" =>
            /\ Len(particles') = Len(particles)
            /\ \A k \in Indices(particles) : Built(particles'[k]) = Built(particles[k])]_vars
    /\ [](Updated =>
            /\ Len(vertexArray) = 4 * Len(particles)
            /\ \A k \in Indices(particles) :
                  /\ particles[k].currentColor = particles[k].startColor
                  /\ \A j \in 1..4 : vertexArray[4 * (k - 1) + j].color = particles[k].startColor)

\* a particle on its way whose end colour differs from its colour
C9_Witness ==
    /\ Updated /\ progress = FHalf
    /\ \E k \in Indices(particles) :
          /\ particles[k].endColor # particles[k].startColor
          /\ particles[k].currentPos # particles[k].startPos

\* the step that ends the sampling loop and pushes the particle
MatchedStep == pc = "match" /\ targetPixels # <<>> /\ i = samples /\ pc' # "match"

\* the drawn entry the sampling must have kept: of the entries at the least
\* distance among those drawn, the one drawn first
FirstBest ==
    LET d(k) == colorDiff(p.startColor, targetPixels[drawn[k] + 1].color)
        k0   == CHOOSE k \in Indices(drawn) :
                    /\ \A j \in Indices(drawn) : d(k) <= d(j)
                    /\ \A j \in 1..(k - 1) : d(j) > d(k)
    IN  drawn[k0]

\* the particle a step pushes
Pushed == particles'[Len(particles')]

\* what C10 says of the matched entry and of the end colour
MatchedEntry ==
    /\ i = 100
    /\ drawn # <<>>
    /\ bestIndex = FirstBest
    /\ minDiff = colorDiff(p.startColor, targetPixels[bestIndex + 1].color)
    /\ Pushed.endColor = targetPixels[bestIndex + 1].color

\* whether v is within 0.4 * targetScale + Tol of w on each axis
WithinJitterRounded(v, w) == Within5(v, w, DTimes(2, targetScale))

=============================================================================
